---- MODULE Spec2Model ----
(***************************************************************************)
(* The recording + live volume-metering session of DynamicRecorder.tsx,    *)
(* as a state machine over the browser's event loop.  One action is one    *)
(* task of the event loop: a click handler, the resolution of a            *)
(* getUserMedia promise together with the continuation that awaits it, an  *)
(* animation-frame callback, the MediaRecorder's stop event, the end of    *)
(* the hand-off, the unmount of the component.  React 18 ('use client')    *)
(* batches the state updates of one task, so the status effect of lines    *)
(* 101-114 runs once per task, on the status the task ends with.           *)
(* The page's two submit paths (page.tsx) and the POST /api/transcribe      *)
(* handler are modelled the same way, a task or the code between two       *)
(* awaits per action, each under a specification of its own.               *)
(***************************************************************************)
EXTENDS Integers, Sequences, FiniteSets, TLC

\* ---------------------------------------------------------------- bounds
MaxStreams  == 4    \* getUserMedia grants in one run (hook + monitoring)
MaxInFlight == 1    \* startRecording calls awaiting getUserMedia at once
MaxLevel    == 2    \* volumeLevel is quantised to 0..MaxLevel
MaxSubmits  == 2    \* hand-offs of one artifact
MaxUploads  == 2    \* handleUploadSubmit calls that have not settled yet
MaxRequests == 3    \* requests one run of the POST handler's process serves

VARIABLES
    mounted,            \* the DynamicRecorder instance is mounted
    status,             \* useReactMediaRecorder().status
    mediaStream,        \* the hook's mediaStream.current: 0 = null, else a stream
    owner,              \* owner[s]: who called getUserMedia for stream s
    live,               \* streams whose track is still live (device open)
    hasRecorder,        \* mediaRecorder.current # null
    recorderActive,     \* mediaRecorder.current.state = "recording"
    recOn,              \* recOn[s]: MediaRecorders recording stream s
    stopEvents,         \* MediaRecorder stop events queued, not yet delivered
    pend1,              \* startRecording calls at the first await getMediaStream()
    pend2,              \* startRecording calls at the await in the isStreamEnded branch
    audioContext,       \* audioContextRef.current: "null", "running", "closed"
    analyserSet,        \* analyserRef.current # null
    pendingMon,         \* startVolumeMonitoring calls awaiting getUserMedia
    frames,             \* metering loops with an animation frame scheduled
    animationFrameRef,  \* animationFrameRef.current: 0 = null, else the loop whose
                        \* frame id was stored last
    volumeLevel,        \* useState volumeLevel
    audioBlob,          \* useState audioBlob: 0 = null, else an artifact
    mediaBlobUrl,       \* the hook's mediaBlobUrl: 0 = undefined, else an artifact
    blobCount,          \* artifacts produced so far
    blobSize,           \* size of the Blob in audioBlob (0 when there is none)
    isProcessing,       \* useState isProcessing
    inFlight,           \* calls of onRecordingComplete that have not settled yet
    handed,             \* calls of onRecordingComplete made with the artifact in audioBlob
    conforming,         \* every start so far was issued in idle or stopped
    lastOp,             \* the task that ran last
    transcript,         \* page.tsx useState transcript (a string, as its characters)
    segments,           \* page.tsx useState segments
    textarea,           \* the value rendered in Textarea#transcript
    response,           \* responses of POST /api/transcribe on their way to the page
    isLoading,          \* page.tsx useState isLoading
    error,              \* page.tsx useState error: "null" or the message shown
    uploadedFile,       \* page.tsx useState uploadedFile: "null" or "file"
    uploads,            \* calls of handleUploadSubmit that have not settled yet
    unhandledRejection, \* a promise returned to an event handler was rejected
    pc,                 \* POST handler: "idle", the await it is suspended at, "returned"
    apiKey,             \* process.env.OPENAI_API_KEY is set
    file,               \* the body of the request being served: "malformed"
                        \* (formData() rejects), "none" (no file field), "empty"
                        \* (file.size is 0), "audio"
    tempFilePath,       \* the handler's local tempFilePath: 0 = '', else a path
    disk,               \* temporary files that exist in os.tmpdir()
    created,            \* the request being served has written its temporary file
    unlinkError,        \* unlinkSync threw in the finally of the request being served
    apiCalls,           \* openai.audio.transcriptions.create calls made
    httpStatus,         \* status of the last response: 0 before any
    served              \* requests received so far

recVars  == <<mediaStream, owner, live, hasRecorder, recorderActive, recOn,
              stopEvents, pend1, pend2>>
monVars  == <<audioContext, analyserSet, pendingMon, frames, animationFrameRef,
              volumeLevel>>
subVars  == <<audioBlob, mediaBlobUrl, blobCount, blobSize, isProcessing, inFlight, handed>>
viewVars == <<transcript, segments, textarea>>
flowVars == <<isLoading, error, uploadedFile, uploads, unhandledRejection>>
pageVars == <<viewVars, response, flowVars>>
routeVars == <<pc, apiKey, file, tempFilePath, disk, created, unlinkError, apiCalls,
               httpStatus, served>>
sessionVars == <<mounted, status, recVars, monVars, subVars, conforming, lastOp>>
vars     == <<sessionVars, pageVars, routeVars>>

StreamIds == 1 .. MaxStreams
NextStream == Len(owner) + 1
CanOpen == Len(owner) < MaxStreams

\* ---------------------------------------------------------------- Init
SessionInit ==
    /\ mounted = TRUE
    /\ status = "idle"
    /\ mediaStream = 0
    /\ owner = << >>
    /\ live = {}
    /\ hasRecorder = FALSE
    /\ recorderActive = FALSE
    /\ recOn = [s \in StreamIds |-> 0]
    /\ stopEvents = 0
    /\ pend1 = 0
    /\ pend2 = 0
    /\ audioContext = "null"
    /\ analyserSet = FALSE
    /\ pendingMon = 0
    /\ frames = {}
    /\ animationFrameRef = 0
    /\ volumeLevel = 0
    /\ audioBlob = 0
    /\ mediaBlobUrl = 0
    /\ blobCount = 0
    /\ blobSize = 0
    /\ isProcessing = FALSE
    /\ inFlight = 0
    /\ handed = 0
    /\ conforming = TRUE
    /\ lastOp = "init"

\* The page before any transcription: useState(''), useState([]),
\* useState(false), useState(null), no request under way.
PageEmpty ==
    /\ transcript = << >>
    /\ segments = << >>
    /\ textarea = << >>
    /\ isLoading = FALSE
    /\ error = "null"
    /\ uploadedFile = "null"
    /\ uploads = 0
    /\ unhandledRejection = FALSE

\* The route's process before its first request.
RouteIdle ==
    /\ pc = "idle"
    /\ apiKey \in BOOLEAN
    /\ file = "none"
    /\ tempFilePath = 0
    /\ disk = {}
    /\ created = FALSE
    /\ unlinkError = FALSE
    /\ apiCalls = 0
    /\ httpStatus = 0
    /\ served = 0

Init ==
    /\ SessionInit
    /\ PageEmpty
    /\ response = << >>
    /\ RouteIdle /\ apiKey

\* ------------------------------------------------- the status effect
\* stopVolumeMonitoring: cancel the frame animationFrameRef names (if any);
\* the ref itself is left as it is.
FramesAfterCancel == IF animationFrameRef # 0 THEN frames \ {animationFrameRef} ELSE frames

\* The audio context after the cleanup of the old status and the body for the
\* new one: the cleanup closes an existing context, the body creates one only
\* when the ref is still null.
ContextAfterEffect(new) ==
    IF audioContext = "null"
        THEN (IF new = "recording" THEN "running" ELSE "null")
        ELSE "closed"

\* A task ends with status `new`: React re-renders when it differs from the
\* rendered status and runs the cleanup of the old effect, then the new effect.
Render(new) ==
    IF mounted /\ new # status
    THEN /\ status' = new
         /\ frames' = FramesAfterCancel
         /\ volumeLevel' = 0
         /\ audioContext' = ContextAfterEffect(new)
         /\ pendingMon' = IF new = "recording" THEN pendingMon + 1 ELSE pendingMon
         /\ UNCHANGED <<analyserSet, animationFrameRef>>
    ELSE UNCHANGED <<status, monVars>>

\* ------------------------------------------------- the controls
\* The Start button with the status test missing from its disabled attribute.
StartDisabledOnlyProcessing == isProcessing

\* Start button: disabled={status === 'recording' || isProcessing}
StartDisabled == status = "recording" \/ isProcessing

\* The Stop button with the status test missing from its disabled attribute.
StopDisabledOnlyProcessing == isProcessing

\* Stop button: disabled={status !== 'recording' || isProcessing}
StopDisabled == status # "recording" \/ isProcessing

\* Submit button: rendered when mediaBlobUrl is set,
\* disabled={isProcessing || !audioBlob}
SubmitDisabled == mediaBlobUrl = 0 \/ isProcessing \/ audioBlob = 0

\* ------------------------------------------------- the recorder hook
\* new MediaRecorder(mediaStream.current); start(); setStatus("recording"),
\* on the stream s that mediaStream.current holds at the end of the task.
StartRecorderOn(s) ==
    /\ hasRecorder' = TRUE
    /\ recorderActive' = TRUE
    /\ recOn' = [recOn EXCEPT ![s] = @ + 1]
    /\ Render("recording")

\* The tracks of stream s end: every MediaRecorder recording s stops and
\* queues its stop event.
EndTracks(s) ==
    /\ live' = live \ {s}
    /\ stopEvents' = stopEvents + recOn[s]
    /\ recOn' = [recOn EXCEPT ![s] = 0]

\* onClick={startRecording} on the enabled Start button.
StartClick ==
    /\ UNCHANGED <<pageVars, routeVars>>
    /\ mounted /\ ~StartDisabled
    /\ lastOp' = "start"
    /\ conforming' = (conforming /\ status \in {"idle", "stopped"})
    /\ UNCHANGED <<mounted, owner, live, stopEvents, mediaStream, subVars>>
    /\ IF mediaStream = 0 \/ mediaStream \notin live
       THEN \* await getMediaStream(): setStatus("acquiring_media"), getUserMedia pending
            /\ pend1 + pend2 < MaxInFlight
            /\ pend1' = IF mediaStream = 0 THEN pend1 + 1 ELSE pend1
            /\ pend2' = IF mediaStream = 0 THEN pend2 ELSE pend2 + 1
            /\ UNCHANGED <<hasRecorder, recorderActive, recOn>>
            /\ Render("acquiring_media")
       ELSE \* a live stream is at hand: the recorder starts in the same task
            /\ UNCHANGED <<pend1, pend2>>
            /\ StartRecorderOn(mediaStream)

\* A click on the disabled Start button: the browser delivers no event.
StartIgnored ==
    /\ UNCHANGED <<pageVars, routeVars>>
    /\ mounted /\ StartDisabled
    /\ lastOp' = "startIgnored"
    /\ UNCHANGED <<mounted, status, recVars, monVars, subVars, conforming>>

\* getUserMedia of the hook resolves with a new stream; getMediaStream stores
\* it and the awaiting startRecording starts a recorder on it.
HookGrant ==
    /\ UNCHANGED <<pageVars, routeVars>>
    /\ CanOpen
    /\ \E path \in {1, 2} :
          /\ IF path = 1 THEN pend1 > 0 ELSE pend2 > 0
          /\ pend1' = IF path = 1 THEN pend1 - 1 ELSE pend1
          /\ pend2' = IF path = 2 THEN pend2 - 1 ELSE pend2
    /\ owner' = Append(owner, "hook")
    /\ mediaStream' = NextStream
    /\ live' = live \cup {NextStream}
    /\ StartRecorderOn(NextStream)
    /\ lastOp' = "hookGrant"
    /\ UNCHANGED <<mounted, stopEvents, subVars, conforming>>

\* getUserMedia of the hook rejects: getMediaStream catches (setError,
\* setStatus("idle")) and the awaiting startRecording goes on with whatever
\* mediaStream.current holds.
HookDeny ==
    /\ UNCHANGED <<pageVars, routeVars>>
    /\ lastOp' = "hookDeny"
    /\ UNCHANGED <<mounted, owner, live, stopEvents, mediaStream, subVars, conforming>>
    /\ \/ /\ pend1 > 0
          /\ IF mediaStream = 0
             THEN /\ pend1' = pend1 - 1
                  /\ UNCHANGED <<pend2, hasRecorder, recorderActive, recOn>>
                  /\ Render("idle")
             ELSE IF mediaStream \notin live
             THEN \* isStreamEnded: await getMediaStream() once more
                  /\ pend1' = pend1 - 1
                  /\ pend2' = pend2 + 1
                  /\ UNCHANGED <<hasRecorder, recorderActive, recOn>>
                  /\ Render("acquiring_media")
             ELSE /\ pend1' = pend1 - 1
                  /\ UNCHANGED pend2
                  /\ StartRecorderOn(mediaStream)
       \/ /\ pend2 > 0
          /\ pend2' = pend2 - 1
          /\ UNCHANGED pend1
          /\ IF mediaStream \notin live
             THEN \* !mediaStream.current.active: return
                  /\ UNCHANGED <<hasRecorder, recorderActive, recOn>>
                  /\ Render("idle")
             ELSE StartRecorderOn(mediaStream)

\* onClick={stopRecording} on the enabled Stop button.
StopClick ==
    /\ UNCHANGED <<pageVars, routeVars>>
    /\ mounted /\ ~StopDisabled
    /\ lastOp' = "stop"
    /\ UNCHANGED <<mounted, owner, mediaStream, pend1, pend2, subVars, conforming>>
    /\ IF hasRecorder /\ recorderActive
       THEN \* setStatus("stopping"); stop(); stopStreamsOnStop: track.stop()
            /\ recorderActive' = FALSE
            /\ UNCHANGED hasRecorder
            /\ EndTracks(mediaStream)
            /\ Render("stopping")
       ELSE UNCHANGED <<status, hasRecorder, recorderActive, recOn, live,
                        stopEvents, monVars>>

\* A click on the disabled Stop button: the browser delivers no event.
StopIgnored ==
    /\ UNCHANGED <<pageVars, routeVars>>
    /\ mounted /\ StopDisabled
    /\ lastOp' = "stopIgnored"
    /\ UNCHANGED <<mounted, status, recVars, monVars, subVars, conforming>>

\* The size of a recording: 0 when the recorder was stopped before it had
\* captured any audio.
BlobSizes == {0, 1}

\* The MediaRecorder's stop event: onRecordingStop builds the blob,
\* setStatus("stopped"), setMediaBlobUrl(url), onStop(url, blob) -> setAudioBlob.
OnStop ==
    /\ UNCHANGED <<pageVars, routeVars>>
    /\ stopEvents > 0
    /\ stopEvents' = stopEvents - 1
    /\ blobCount' = blobCount + 1
    /\ handed' = IF mounted THEN 0 ELSE handed
    /\ mediaBlobUrl' = IF mounted THEN blobCount + 1 ELSE mediaBlobUrl
    /\ audioBlob' = IF mounted THEN blobCount + 1 ELSE audioBlob
    /\ \E size \in BlobSizes : blobSize' = IF mounted THEN size ELSE blobSize
    /\ Render("stopped")
    /\ lastOp' = "onstop"
    /\ UNCHANGED <<mounted, mediaStream, owner, live, hasRecorder, recorderActive,
                   recOn, pend1, pend2, isProcessing, inFlight, conforming>>

\* ------------------------------------------------- level metering
\* What getByteFrequencyData yields, averaged and divided by 255, quantised:
\* any level while the context renders audio, 0 from a closed context.
Samples == IF audioContext = "running" THEN 0 .. MaxLevel ELSE {0}

\* updateVolume of loop l: setVolumeLevel(average / 255), then
\* animationFrameRef.current = requestAnimationFrame(updateVolume).
UpdateVolume(l) ==
    /\ \E v \in Samples : volumeLevel' = IF mounted THEN v ELSE volumeLevel
    /\ frames' = frames \cup {l}
    /\ animationFrameRef' = l

\* getUserMedia of startVolumeMonitoring resolves with a new stream.  On a
\* closed context createMediaStreamSource either throws InvalidStateError
\* (caught at line 89) or builds the node, depending on the browser; on a
\* running context the analyser is built and the first updateVolume runs.
MonGrant ==
    /\ UNCHANGED <<pageVars, routeVars>>
    /\ pendingMon > 0 /\ CanOpen
    /\ pendingMon' = pendingMon - 1
    /\ owner' = Append(owner, "monitor")
    /\ live' = live \cup {NextStream}
    /\ \/ /\ audioContext = "closed"
          /\ lastOp' = "monThrow"
          /\ UNCHANGED <<analyserSet, frames, animationFrameRef, volumeLevel>>
       \/ /\ analyserSet' = TRUE
          /\ UpdateVolume(NextStream)
          /\ lastOp' = "monGrant"
    /\ UNCHANGED <<mounted, status, audioContext, mediaStream, hasRecorder,
                   recorderActive, recOn, stopEvents, pend1, pend2, subVars, conforming>>

\* getUserMedia of startVolumeMonitoring rejects: the catch logs the error.
MonDeny ==
    /\ UNCHANGED <<pageVars, routeVars>>
    /\ pendingMon > 0
    /\ pendingMon' = pendingMon - 1
    /\ lastOp' = "monDeny"
    /\ UNCHANGED <<mounted, status, recVars, audioContext, analyserSet, frames,
                   animationFrameRef, volumeLevel, subVars, conforming>>

\* The animation frame of loop l fires: updateVolume runs again.
Frame ==
    /\ UNCHANGED <<pageVars, routeVars>>
    /\ \E l \in frames : UpdateVolume(l)
    /\ lastOp' = "frame"
    /\ UNCHANGED <<mounted, status, recVars, audioContext, analyserSet, pendingMon,
                   subVars, conforming>>

\* ------------------------------------------------- teardown
\* The component unmounts: the effect cleanup runs stopVolumeMonitoring and
\* closes the context; the hook's own cleanup stops the tracks of
\* mediaStream.current or only clones of them, depending on its version.
Unmount ==
    /\ UNCHANGED <<pageVars, routeVars>>
    /\ mounted
    /\ mounted' = FALSE
    /\ frames' = FramesAfterCancel
    /\ audioContext' = IF audioContext = "null" THEN "null" ELSE "closed"
    /\ \/ /\ mediaStream # 0
          /\ EndTracks(mediaStream)
          /\ recorderActive' = FALSE
       \/ UNCHANGED <<live, stopEvents, recOn, recorderActive>>
    /\ lastOp' = "unmount"
    /\ UNCHANGED <<status, mediaStream, owner, hasRecorder, pend1, pend2, analyserSet,
                   pendingMon, animationFrameRef, volumeLevel, subVars, conforming>>

\* ------------------------------------------------- the transcript page
\* Strings are sequences of one-character strings; a time is a number of
\* tenths of a second (1.2 s is 12).
MaxSegments == 2    \* segments in one transcription response

Digits == <<"0", "1", "2", "3", "4", "5", "6", "7", "8", "9">>

\* Number.prototype.toString of a non-negative integer.
RECURSIVE toString(_)
toString(n) ==
    IF n < 10 THEN <<Digits[n + 1]>>
    ELSE toString(n \div 10) \o <<Digits[(n % 10) + 1]>>

\* String.prototype.padStart with a one-character pad.
RECURSIVE padStart(_, _, _)
padStart(s, targetLength, pad) ==
    IF Len(s) >= targetLength THEN s ELSE padStart(<<pad>> \o s, targetLength, pad)

\* formatTimestamp with the seconds not reduced modulo 60.
formatTimestampNoModulo(time) ==
    LET minutes == time \div 600
        seconds == time \div 10
    IN  padStart(toString(minutes), 2, "0") \o <<":">> \o padStart(toString(seconds), 2, "0")

\* minutes = Math.floor(time / 60), seconds = Math.floor(time % 60),
\* `${minutes padded}:${seconds padded}`
formatTimestamp(time) ==
    LET minutes == time \div 600
        seconds == (time % 600) \div 10
    IN  padStart(toString(minutes), 2, "0") \o <<":">> \o padStart(toString(seconds), 2, "0")

\* Array.prototype.join
RECURSIVE join(_, _)
join(parts, sep) ==
    IF Len(parts) = 0 THEN << >>
    ELSE IF Len(parts) = 1 THEN parts[1]
    ELSE parts[1] \o sep \o join(Tail(parts), sep)

\* segments.map(seg => `[${start} - ${end}] ${seg.text}`).join('\n')
getTranscriptWithTimestamps(segs) ==
    join([i \in 1 .. Len(segs) |->
            <<"[">> \o formatTimestamp(segs[i].start) \o <<" ", "-", " ">>
                    \o formatTimestamp(segs[i].end) \o <<"]", " ">> \o segs[i].text],
         <<"\n">>)

\* segments.map(seg => seg.text).join(' ')
getTranscriptWithoutTimestamps(segs) ==
    join([i \in 1 .. Len(segs) |-> segs[i].text], <<" ">>)

\* The responses the transcription call is given in the model.
HelloWorld == <<"h", "e", "l", "l", "o", " ", "w", "o", "r", "l", "d">>
SampleTexts == {HelloWorld, <<"h", "i">>}
SampleTimes == {0, 12, 599, 600, 6125, 60000}
SegmentBodies ==
    {b \in [start : SampleTimes, end : SampleTimes, text : SampleTexts] : b.start <= b.end}
SegmentLists ==
    UNION {[1 .. n -> SegmentBodies] : n \in 0 .. MaxSegments}
WithIds(bodies) ==
    [i \in 1 .. Len(bodies) |->
        [id |-> i - 1, start |-> bodies[i].start, end |-> bodies[i].end,
         text |-> bodies[i].text]]
Responses ==
    {[text |-> txt, segments |-> WithIds(bodies)] : txt \in SampleTexts, bodies \in SegmentLists}

\* ------------------------------------------------- the hand-off
\* How the fetch of transcribeAudio ends: an OK response, a response that is
\* not OK (line 396 throws), or a rejected fetch.
FetchOutcomes == {"ok", "notOk", "rejected"}

\* The data of an OK response in the runs of the two submit paths.
FetchedData ==
    {[text |-> HelloWorld,
      segments |-> WithIds(<<[start |-> 0, end |-> 12, text |-> HelloWorld]>>)]}

\* The message handleRecordingComplete puts in error.
TranscriptionError == "An error occurred during transcription. Please try again."

\* transcribeAudio after an OK response: setTranscript(data.text),
\* setSegments(data.segments); the page re-renders the Textarea with
\* value={getTranscriptWithTimestamps()}.
ApplyResponse(data) ==
    /\ transcript' = data.text
    /\ segments' = data.segments
    /\ textarea' = getTranscriptWithTimestamps(data.segments)

\* handleSubmit from the enabled Submit button: the guard tests audioBlob for
\* null only; setIsProcessing(true), then onRecordingComplete(file) runs
\* handleRecordingComplete up to the fetch: setIsLoading(true), setError(null).
Submit ==
    /\ mounted /\ ~SubmitDisabled
    /\ handed < MaxSubmits
    /\ isProcessing' = TRUE
    /\ inFlight' = inFlight + 1
    /\ handed' = handed + 1
    /\ isLoading' = TRUE
    /\ error' = "null"
    /\ lastOp' = "submit"
    /\ UNCHANGED <<mounted, status, recVars, monVars, audioBlob, mediaBlobUrl,
                   blobCount, blobSize, conforming>>
    /\ UNCHANGED <<viewVars, response, uploadedFile, uploads, unhandledRejection, routeVars>>

\* The fetch of a recorded artifact settles.  transcribeAudio applies the data
\* or rethrows; handleRecordingComplete catches (setError) and finally
\* setIsLoading(false); handleSubmit finally setIsProcessing(false).
SubmitDone ==
    /\ inFlight > 0
    /\ inFlight' = inFlight - 1
    /\ \E outcome \in FetchOutcomes :
          IF outcome = "ok"
          THEN /\ \E data \in FetchedData : ApplyResponse(data)
               /\ error' = error
               /\ lastOp' = "submitDone"
          ELSE /\ UNCHANGED viewVars
               /\ error' = TranscriptionError
               /\ lastOp' = "submitFail"
    /\ isLoading' = FALSE
    /\ isProcessing' = IF mounted THEN FALSE ELSE isProcessing
    /\ UNCHANGED <<mounted, status, recVars, monVars, audioBlob, mediaBlobUrl,
                   blobCount, blobSize, handed, conforming>>
    /\ UNCHANGED <<response, uploadedFile, uploads, unhandledRejection, routeVars>>

\* ------------------------------------------------- the upload path
\* handleFileUpload: a file is chosen in the input of the upload tab, which is
\* shown while the record tab (and with it the recorder) is not.
HandleFileUpload ==
    /\ ~mounted
    /\ uploadedFile' = "file"
    /\ lastOp' = "fileUpload"
    /\ UNCHANGED <<mounted, status, recVars, monVars, subVars, conforming>>
    /\ UNCHANGED <<viewVars, response, isLoading, error, uploads, unhandledRejection,
                   routeVars>>

\* handleUploadSubmit from the upload tab's Submit button (rendered when
\* uploadedFile is set, never disabled): transcribeAudio up to the fetch.
UploadSubmit ==
    /\ ~mounted
    /\ uploadedFile # "null"
    /\ uploads < MaxUploads
    /\ uploads' = uploads + 1
    /\ lastOp' = "uploadSubmit"
    /\ UNCHANGED <<mounted, status, recVars, monVars, subVars, conforming>>
    /\ UNCHANGED <<viewVars, response, isLoading, error, uploadedFile, unhandledRejection,
                   routeVars>>

\* The fetch of an uploaded file settles.  transcribeAudio applies the data
\* or rethrows; handleUploadSubmit awaits it without a try, so the promise it
\* returned to the click handler is rejected with nothing handling it.
UploadDone ==
    /\ uploads > 0
    /\ uploads' = uploads - 1
    /\ \E outcome \in FetchOutcomes :
          IF outcome = "ok"
          THEN /\ \E data \in FetchedData : ApplyResponse(data)
               /\ unhandledRejection' = unhandledRejection
               /\ lastOp' = "uploadDone"
          ELSE /\ UNCHANGED viewVars
               /\ unhandledRejection' = TRUE
               /\ lastOp' = "uploadFail"
    /\ UNCHANGED <<mounted, status, recVars, monVars, subVars, conforming>>
    /\ UNCHANGED <<response, isLoading, error, uploadedFile, routeVars>>

\* ------------------------------------------------- one response, rendered
\* A response reaches transcribeAudio: the data is applied and rendered.
TranscribeOk ==
    /\ response # << >>
    /\ ApplyResponse(Head(response))
    /\ response' = Tail(response)
    /\ UNCHANGED <<sessionVars, flowVars, routeVars>>

\* A run of the page on one transcription response.
PageInit ==
    /\ SessionInit
    /\ PageEmpty
    /\ RouteIdle /\ apiKey
    /\ \E data \in Responses : response = <<data>>

PageNext == TranscribeOk

PageSpec == PageInit /\ [][PageNext]_vars

\* ------------------------------------------------- the two submit paths
\* The recorder of the record tab after one recording (Start, both device
\* requests granted, Stop, the stop event), its artifact of either size.
Recorded ==
    /\ mounted = TRUE
    /\ status = "stopped"
    /\ mediaStream = 1
    /\ owner = <<"hook", "monitor">>
    /\ live = {2}
    /\ hasRecorder = TRUE
    /\ recorderActive = FALSE
    /\ recOn = [s \in StreamIds |-> 0]
    /\ stopEvents = 0
    /\ pend1 = 0
    /\ pend2 = 0
    /\ audioContext = "closed"
    /\ analyserSet = TRUE
    /\ pendingMon = 0
    /\ frames = {}
    /\ animationFrameRef = 2
    /\ volumeLevel = 0
    /\ audioBlob = 1
    /\ mediaBlobUrl = 1
    /\ blobCount = 1
    /\ blobSize \in BlobSizes
    /\ isProcessing = FALSE
    /\ inFlight = 0
    /\ handed = 0
    /\ conforming = TRUE
    /\ lastOp = "onstop"

\* The page with a recording made: the artifact is submitted, the user may
\* leave the record tab (which unmounts the recorder) and use the upload tab.
TranscribeInit ==
    /\ Recorded
    /\ PageEmpty
    /\ response = << >>
    /\ RouteIdle /\ apiKey

TranscribeNext ==
    \/ Submit
    \/ SubmitDone
    \/ Unmount
    \/ HandleFileUpload
    \/ UploadSubmit
    \/ UploadDone

TranscribeSpec == TranscribeInit /\ [][TranscribeNext]_vars

\* ------------------------------------------------- POST /api/transcribe
\* The handler runs one request at a time here; one action is the code
\* between two awaits.  A path is the number of the request that made it
\* (Date.now() in the name keeps the paths of successive requests apart).
Bodies == {"malformed", "none", "empty", "audio"}

\* How openai.audio.transcriptions.create ends: a transcription with text,
\* one whose text is empty or blank, or a thrown error.
ApiOutcomes == {"text", "empty", "error"}

\* The finally block with the unlinkSync missing.
FinallyWithoutUnlink(d) ==
    /\ disk' = d
    /\ unlinkError' = FALSE

\* The finally block (72-81) on a tmpdir holding the files d: unlinkSync
\* removes the file when tempFilePath is set and the file exists; an error
\* thrown by unlinkSync is caught and logged, the file stays.
Finally(d) ==
    IF tempFilePath # 0 /\ tempFilePath \in d
    THEN \/ /\ disk' = d \ {tempFilePath}
            /\ unlinkError' = FALSE
         \/ /\ disk' = d
            /\ unlinkError' = TRUE
    ELSE /\ disk' = d
         /\ unlinkError' = FALSE

\* A request arrives: without an API key the handler answers 500 at once
\* (14-17), else it declares tempFilePath = '' and awaits req.formData().
Post ==
    /\ pc \in {"idle", "returned"}
    /\ served < MaxRequests
    /\ served' = served + 1
    /\ \E body \in Bodies : file' = body
    /\ tempFilePath' = 0
    /\ created' = FALSE
    /\ unlinkError' = FALSE
    /\ IF apiKey
       THEN pc' = "formData" /\ httpStatus' = 0
       ELSE pc' = "returned" /\ httpStatus' = 500
    /\ UNCHANGED <<apiKey, disk, apiCalls>>
    /\ UNCHANGED <<sessionVars, pageVars>>

\* req.formData() settles: a rejection goes to the catch (500); a missing
\* file and a file of size 0 are answered 400; else tempFilePath is set and
\* the handler awaits file.arrayBuffer().  The returns run the finally.
FormData ==
    /\ pc = "formData"
    /\ IF file = "audio"
       THEN /\ tempFilePath' = served
            /\ pc' = "arrayBuffer"
            /\ UNCHANGED <<httpStatus, disk, unlinkError>>
       ELSE /\ httpStatus' = IF file = "malformed" THEN 500 ELSE 400
            /\ Finally(disk)
            /\ pc' = "returned"
            /\ UNCHANGED tempFilePath
    /\ UNCHANGED <<apiKey, file, created, apiCalls, served>>
    /\ UNCHANGED <<sessionVars, pageVars>>

\* file.arrayBuffer() settles: writeFileSync creates the temporary file and
\* the speech API is called, or writeFileSync throws (with or without a file
\* left behind) and the catch answers 500, then the finally runs.
Write ==
    /\ pc = "arrayBuffer"
    /\ \/ /\ disk' = disk \cup {tempFilePath}
          /\ created' = TRUE
          /\ apiCalls' = apiCalls + 1
          /\ pc' = "create"
          /\ UNCHANGED <<httpStatus, unlinkError>>
       \/ /\ \E d \in {disk, disk \cup {tempFilePath}} :
                /\ created' = (tempFilePath \in d)
                /\ Finally(d)
          /\ httpStatus' = 500
          /\ pc' = "returned"
          /\ UNCHANGED apiCalls
    /\ UNCHANGED <<apiKey, file, tempFilePath, served>>
    /\ UNCHANGED <<sessionVars, pageVars>>

\* openai.audio.transcriptions.create settles: 200 with the text, 500 for an
\* empty transcription (56-59), 500 from the catch; then the finally runs.
Transcribed ==
    /\ pc = "create"
    /\ \E outcome \in ApiOutcomes :
          httpStatus' = IF outcome = "text" THEN 200 ELSE 500
    /\ Finally(disk)
    /\ pc' = "returned"
    /\ UNCHANGED <<apiKey, file, tempFilePath, created, apiCalls, served>>
    /\ UNCHANGED <<sessionVars, pageVars>>

\* The route's process, with or without an API key, serving requests.
HandlerInit ==
    /\ SessionInit
    /\ PageEmpty
    /\ response = << >>
    /\ RouteIdle

HandlerNext ==
    \/ Post
    \/ FormData
    \/ Write
    \/ Transcribed

HandlerSpec == HandlerInit /\ [][HandlerNext]_vars

\* ------------------------------------------------- the recording session
Next ==
    \/ StartClick
    \/ StartIgnored
    \/ HookGrant
    \/ HookDeny
    \/ StopClick
    \/ StopIgnored
    \/ OnStop
    \/ MonGrant
    \/ MonDeny
    \/ Frame
    \/ Submit
    \/ SubmitDone
    \/ Unmount

Spec == Init /\ [][Next]_vars

\* ================================================================ claims

\* ---------------------------------------------------------------- C1
\* C1: in every run whose starts were all issued in idle or stopped (and
\* whose stops were issued in recording, which the Stop control enforces), at
\* most one microphone stream is open, counting the hook's stream and the
\* stream startVolumeMonitoring acquires itself.
C1_AtMostOneStream == conforming => Cardinality(live) <= 1

\* ---------------------------------------------------------------- C2
\* C2: once a stop has taken the status out of 'recording' (stopping, then
\* stopped), volumeLevel is 0 and no updateVolume iteration is scheduled or
\* runs any more, whenever the pending getUserMedia promise resolves.
C2_NoMeteringAfterStop ==
    (mounted /\ status \in {"stopping", "stopped"}) =>
        (volumeLevel = 0 /\ frames = {} /\ lastOp \notin {"monGrant", "frame"})

\* ---------------------------------------------------------------- C3
\* C3: when the Stop came before the device-access request of
\* startVolumeMonitoring was settled, the request settling afterwards (the
\* session no longer recording) leaves no device stream open.
C3_NoDanglingStream ==
    (mounted /\ status # "recording" /\ lastOp \in {"monGrant", "monThrow"}) => live = {}

\* ---------------------------------------------------------------- C4
\* C4: when a device-access request is denied, the session is no longer
\* recording (it is in its error state) and nothing acquired so far is still
\* held: no live stream, no running audio context, no scheduled frame.
C4_DenialReleasesAll ==
    (mounted /\ lastOp \in {"hookDeny", "monDeny"}) =>
        /\ status # "recording"
        /\ live = {}
        /\ audioContext # "running"
        /\ frames = {}

\* ---------------------------------------------------------------- C5
C5_Step ==
    status = "recording" =>
        (/\ lastOp' # "start"
         /\ lastOp' = "startIgnored" => UNCHANGED <<status, recVars, monVars, subVars>>)

C6_HandedExactlyOnce ==
    /\ handed <= 1
    /\ inFlight <= 1
    /\ handed > 0 => audioBlob # 0

\* ---------------------------------------------------------------- C8
\* C8: at the moment the artifact is produced (onStop delivers the blob), no
\* device stream of the session is still open.
C8_ReleaseBeforeArtifact == lastOp = "onstop" => live = {}

\* ---------------------------------------------------------------- C9
\* C9: after the component has unmounted no stream track is live, the audio
\* context is not running and no metering frame is scheduled.
C9_TeardownReleasesAll ==
    ~mounted => (live = {} /\ audioContext # "running" /\ frames = {})

\* ---------------------------------------------------------------- C10
C10_Step ==
    status \in {"idle", "stopped"} =>
        (/\ lastOp' # "stop"
         /\ lastOp' = "stopIgnored" =>
               UNCHANGED <<status, audioBlob, mediaBlobUrl, volumeLevel, recVars>>)

\* C10: while the status is 'idle' or 'stopped' no stop request reaches
\* stopRecording, and a stop gesture made then raises nothing and leaves the
\* status, the stored artifact and volumeLevel as they are.
C10_StopIsNoOp == [][C10_Step]_vars

\* C10 witness: a stop gesture made in 'stopped', with an artifact stored.
C10_Witness == status = "stopped" /\ lastOp = "stopIgnored" /\ audioBlob # 0

\* ---------------------------------------------------------------- C7
\* Reading a rendering back: the value of a digit string, the first place of
\* a character, the lines of a text.
DigitValue(c) == (CHOOSE i \in 1 .. 10 : Digits[i] = c) - 1
IsDigits(s) == \A i \in 1 .. Len(s) : \E d \in 1 .. 10 : Digits[d] = s[i]

RECURSIVE Value(_)
Value(s) ==
    IF Len(s) = 0 THEN 0
    ELSE 10 * Value(SubSeq(s, 1, Len(s) - 1)) + DigitValue(s[Len(s)])

Has(s, c) == \E i \in 1 .. Len(s) : s[i] = c
First(s, c) == CHOOSE i \in 1 .. Len(s) : s[i] = c /\ \A j \in 1 .. i - 1 : s[j] # c

RECURSIVE Lines(_)
Lines(s) ==
    IF ~Has(s, "\n") THEN <<s>>
    ELSE <<SubSeq(s, 1, First(s, "\n") - 1)>> \o Lines(SubSeq(s, First(s, "\n") + 1, Len(s)))

\* st reads "MM:SS" for the time: two or more digits of minutes (no padding
\* beyond two), two digits of seconds, MM = floor(t / 60), SS = floor(t mod 60).
StampReads(st, time) ==
    /\ Has(st, ":")
    /\ LET c  == First(st, ":")
           mm == SubSeq(st, 1, c - 1)
           ss == SubSeq(st, c + 1, Len(st))
       IN  /\ IsDigits(mm) /\ IsDigits(ss)
           /\ Len(mm) >= 2 /\ (Len(mm) > 2 => mm[1] # "0")
           /\ Len(ss) = 2
           /\ Value(mm) = time \div 600
           /\ Value(ss) = (time % 600) \div 10

\* line reads "[MM:SS - MM:SS] text" for the segment.
LineReads(line, seg) ==
    /\ Len(line) >= 2 /\ line[1] = "[" /\ Has(line, "]")
    /\ LET k     == First(line, "]")
           inner == SubSeq(line, 2, k - 1)
       IN  /\ Has(inner, " ")
           /\ LET d == First(inner, " ")
              IN  /\ StampReads(SubSeq(inner, 1, d - 1), seg.start)
                  /\ SubSeq(inner, d, d + 2) = <<" ", "-", " ">>
                  /\ StampReads(SubSeq(inner, d + 3, Len(inner)), seg.end)
           /\ Len(line) > k /\ line[k + 1] = " "
           /\ SubSeq(line, k + 2, Len(line)) = seg.text

\* The rendering is one such line per segment, joined by newlines.
RenderingReads(text, segs) ==
    IF Len(segs) = 0 THEN text = << >>
    ELSE /\ Len(Lines(text)) = Len(segs)
         /\ \A i \in 1 .. Len(segs) : LineReads(Lines(text)[i], segs[i])

\* The response of the round trip and its timestamped rendering.
StubSegments == <<[id |-> 0, start |-> 0, end |-> 12, text |-> HelloWorld]>>
StubRendering ==
    <<"[", "0", "0", ":", "0", "0", " ", "-", " ", "0", "0", ":", "0", "1", "]", " ">>
        \o HelloWorld
StubApplied == response = << >> /\ transcript = HelloWorld /\ segments = StubSegments

\* C7 as stated: once a response is applied the timestamped rendering is one
\* "[MM:SS - MM:SS] text" line per segment, and for the stub response the
\* displayed transcript (the Textarea) is "hello world" while the timestamped
\* rendering is "[00:00 - 00:01] hello world".
C7_DisplayedIsPlainText ==
    /\ response = << >> => RenderingReads(getTranscriptWithTimestamps(segments), segments)
    /\ StubApplied =>
          /\ textarea = HelloWorld
          /\ getTranscriptWithTimestamps(segments) = StubRendering

\* C7 amended: the format holds as stated, the Textarea displays the
\* timestamped rendering, and for the stub response the stored transcript and
\* the plain-text rendering (Copy Text) are "hello world" while the Textarea
\* shows "[00:00 - 00:01] hello world".
C7_DisplayedIsTimestamped ==
    /\ response = << >> =>
          /\ textarea = getTranscriptWithTimestamps(segments)
          /\ RenderingReads(textarea, segments)
    /\ StubApplied =>
          /\ transcript = HelloWorld
          /\ getTranscriptWithoutTimestamps(segments) = HelloWorld
          /\ textarea = StubRendering

\* C7 witness: the stub response has been applied and rendered.
C7_Witness == StubApplied /\ textarea = StubRendering

\* ---------------------------------------------------------------- C11
\* C11: when a transcription request fails (a response that is not OK or a
\* rejected fetch), on the recorded-audio path and on the uploaded-file path
\* alike, the failure is surfaced in the page's error value, no rejection is
\* left unhandled, and the in-progress flags are false again (isProcessing
\* in the mounted recorder, isLoading once no recorded request is under way).
C11_FailuresSurfaced ==
    /\ lastOp = "submitFail" =>
          /\ error # "null"
          /\ ~isLoading
          /\ mounted => ~isProcessing
    /\ lastOp = "uploadFail" =>
          /\ error # "null"
          /\ ~unhandledRejection
          /\ inFlight = 0 => ~isLoading

\* ---------------------------------------------------------------- C12
\* C12: handleSubmit never sends an empty artifact to the transcribe step:
\* whenever it has handed the file over, the artifact has at least one byte.
C12_NoEmptyArtifactSent == lastOp = "submit" => blobSize > 0

\* ---------------------------------------------------------------- C13
\* C13: over record/stop cycles (every start issued in idle or stopped) and
\* any resolution order of the getUserMedia promises, at most one metering
\* loop is alive, and animationFrameRef names the only pending frame, so that
\* the one cancelAnimationFrame of stopVolumeMonitoring stops all metering.
C13_OneMeteringLoop ==
    conforming =>
        /\ Cardinality(frames) <= 1
        /\ frames # {} => frames = {animationFrameRef}

\* ---------------------------------------------------------------- C14
\* C14: whenever the device access of startVolumeMonitoring is granted while
\* the status is 'recording' (first recording or any later one), the metering
\* loop runs from then on: a frame is scheduled and its samples come from an
\* audio context that is rendering audio.
C14_StartBeginsMetering ==
    (mounted /\ status = "recording" /\ lastOp \in {"monGrant", "monThrow"}) =>
        /\ animationFrameRef \in frames
        /\ audioContext = "running"

\* ---------------------------------------------------------------- C15
\* C15: when startVolumeMonitoring gets to createMediaStreamSource and
\* createAnalyser, the context in audioContextRef has not been closed.
C15_NoUseAfterClose ==
    lastOp \in {"monGrant", "monThrow"} => audioContext # "closed"

\* ---------------------------------------------------------------- C16
\* The early returns the claim names: no API key, no file, an empty file.
EarlyReturn == ~apiKey \/ file \in {"none", "empty"}

\* C16 as stated: when the POST handler has returned, the temporary file it
\* wrote no longer exists, and on an early return (no API key, no file, an
\* empty file) it has not created a temporary file at all.
C16_TempFileDeleted ==
    pc = "returned" =>
        /\ created => tempFilePath \notin disk
        /\ EarlyReturn => (~created /\ tempFilePath = 0)

\* C16 amended: when the POST handler has returned, the temporary file it
\* wrote no longer exists unless unlinkSync threw on that very file (the
\* error is caught and logged and the file stays in the tmpdir), and on an
\* early return it has not created a temporary file at all.
C16_TempFileDeletedUnlessUnlinkThrows ==
    pc = "returned" =>
        /\ (created /\ ~unlinkError) => tempFilePath \notin disk
        /\ unlinkError => (created /\ tempFilePath \in disk)
        /\ EarlyReturn => (~created /\ tempFilePath = 0)

\* C16 witness: a request was transcribed and answered 200, and the temporary
\* file it wrote is gone.
C16_Witness ==
    /\ pc = "returned" /\ httpStatus = 200
    /\ created /\ tempFilePath # 0 /\ tempFilePath \notin disk

====
